---- MODULE Spec2Model ----
(***************************************************************************)
(* Model of db.py: the User, Location, Comment and Position models, the    *)
(* association (favorites) table, password hashing, session renewal and    *)
(* the serializers.  Time is counted in minutes; datetime.datetime.now()   *)
(* reads the variable now.                                                 *)
(***************************************************************************)
EXTENDS Integers, Sequences, FiniteSets, TLC

VARIABLES
    now,        \* the wall clock read by datetime.datetime.now()
    ticks,      \* how many times the clock has advanced (bounds the run)
    users,      \* table "users":      id -> row
    locations,  \* table "locations":  id -> row
    comments,   \* table "comments":   id -> row
    positions,  \* table "positions":  id -> row
    favorites,  \* table "association": set of <<user_id, location_id>>
    nextId,     \* the autoincrement counters of the four tables
    hist,       \* history per user: what was passed in and issued so far
    chist,      \* history per comment: the clock reading at construction
    last        \* the last operation and how it ended

vars == <<now, ticks, users, locations, comments, positions, favorites,
          nextId, hist, chist, last>>

----------------------------------------------------------------------------
(* Bounds of the model *)

MaxTicks == 2

\* the primary keys the tables hand out
UserIds == {1, 2}
LocationIds == {1}
CommentIds == {1, 2}
PositionIds == {1}
\* SpecAuth follows one account through its sessions
AuthUserIds == {1}

(* Program constants *)

MinutesPerDay == 1440
CommentMinutes == 3
Rounds == 13
BcryptMaxBytes == 72

----------------------------------------------------------------------------
(* Inputs *)

Rep(n, b) == [i \in 1..n |-> b]

\* a 72-byte password and two longer ones that share its first 72 bytes
LongPw == Rep(BcryptMaxBytes, 1)
CreatePasswords == {<<1, 2>>, LongPw}
Candidates == {<<1, 2>>, <<2, 1>>, <<1>>, LongPw, LongPw \o <<1>>, LongPw \o <<2>>}

Names == {"Ana"}
Emails == {"ana@x.com", "bo@x.com"}
Salts == {101, 102}
Tokens == {"a94a", "b1f3", "c07e"}
DataTokens == {<<"a94a", "b1f3">>, <<"c07e", "d52c">>}
Addresses == {"Uris Library", "no such place"}
Texts == {"busy"}
Coordinates == {42}
DataSteps == {1, CommentMinutes - 1}
AuthSteps == {1, MinutesPerDay - 1}

None == [none |-> TRUE]

----------------------------------------------------------------------------
(* bcrypt *)

Min(a, b) == IF a < b THEN a ELSE b

\* bcrypt keys its hash with the first 72 bytes of the password only
BcryptKey(password) == SubSeq(password, 1, Min(Len(password), BcryptMaxBytes))

gensalt(rounds, r) == <<rounds, r>>

\* the digest carries the cost and the salt in front of the salted hash;
\* the hash itself is symbolic: equal exactly for equal (salt, key)
hashpw(password, salt) == salt \o <<0>> \o BcryptKey(password)

checkpw(password, hashed) == hashpw(password, SubSeq(hashed, 1, 2)) = hashed

----------------------------------------------------------------------------
(* User *)

\* a renewal that forgets the expiration
renew_session_KeepsExpiration(self, t, tok1, tok2) ==
    [self EXCEPT !.session_token = tok1, !.update_token = tok2]

\* a renewal that forgets the update token once one is set
renew_session_KeepsUpdateToken(self, t, tok1, tok2) ==
    [self EXCEPT !.session_token = tok1,
                 !.session_expiration = t + MinutesPerDay,
                 !.update_token = IF @ = "" THEN tok2 ELSE @]

renew_session(self, t, tok1, tok2) ==
    [self EXCEPT !.session_token = tok1,
                 !.session_expiration = t + MinutesPerDay,
                 !.update_token = tok2]

UserInit(name, email, password, r, t, tok1, tok2) ==
    renew_session([name |-> name,
                   email |-> email,
                   password_digest |-> hashpw(password, gensalt(Rounds, r)),
                   session_token |-> "",
                   session_expiration |-> 0,
                   update_token |-> ""], t, tok1, tok2)

verify_password(self, password) == checkpw(password, self.password_digest)

\* a check that still accepts the token at the instant of expiration
verify_session_token_Inclusive(self, t, session_token) ==
    session_token = self.session_token /\ t <= self.session_expiration

verify_session_token(self, t, session_token) ==
    session_token = self.session_token /\ t < self.session_expiration

\* a check that ties the update token to the session's expiration
verify_update_token_Expiring(self, update_token) ==
    update_token = self.update_token /\ now < self.session_expiration

verify_update_token(self, update_token) == update_token = self.update_token

----------------------------------------------------------------------------
(* Helpers over the tables *)

\* str(x) of a datetime: a text, never the datetime itself
Str(x) == <<"str", x>>

Restrict(f, S) == [x \in S |-> f[x]]

Extend(f, k, v) == [x \in DOMAIN f \cup {k} |-> IF x = k THEN v ELSE f[x]]

MinOf(S) == CHOOSE x \in S : \A y \in S : x <= y

RECURSIVE Ascending(_)
Ascending(S) == IF S = {} THEN <<>> ELSE <<MinOf(S)>> \o Ascending(S \ {MinOf(S)})

\* the rows a relationship() loads, in primary-key order
UserFavorites(u) == {l \in DOMAIN locations : <<u, l>> \in favorites}
LocationFavUsers(l) == {u \in DOMAIN users : <<u, l>> \in favorites}
UserComments(u) == {c \in DOMAIN comments : comments[c].user_id = u}
UserPositions(u) == {p \in DOMAIN positions : positions[p].user_id = u}
LocationComments(l) == {c \in DOMAIN comments : comments[c].location_id = l}

----------------------------------------------------------------------------
(* Location *)

\* geolocator.geocode(address): a region, or None when nothing is found
Geocode(address) ==
    IF address = "Uris Library" THEN [latitude |-> 42, longitude |-> -76] ELSE None

LocationInit(name, address, region) ==
    [name |-> name, address |-> address,
     latitude |-> region.latitude, longitude |-> region.longitude]

(* Comment: the clock is read twice, t1 for the expiration, t2 for the timestamp *)

CommentInit(text, number, user_id, location_id, t1, t2) ==
    [text |-> text, number |-> number, user_id |-> user_id,
     location_id |-> location_id,
     session_expiration |-> t1 + CommentMinutes,
     timestamp |-> t2,
     expired |-> FALSE]

(* Position *)

PositionInit(user_id, latitude, longitude, t) ==
    [user_id |-> user_id, latitude |-> latitude, longitude |-> longitude,
     timestamp |-> t]

----------------------------------------------------------------------------
(* Serializers: a mapping from field name to value *)

UserSimpleSerialize(id) ==
    [id |-> id, name |-> users[id].name, email |-> users[id].email]

LocationSimpleSerialize(id) ==
    [id |-> id, name |-> locations[id].name, address |-> locations[id].address]

CommentSimpleSerialize(id) ==
    [id |-> id, text |-> comments[id].text, timestamp |-> Str(comments[id].timestamp)]

PositionSimpleSerialize(id) ==
    [latitude |-> positions[id].latitude,
     longitude |-> positions[id].longitude,
     timestamp |-> Str(positions[id].timestamp)]

UserSerialize(id) ==
    LET favs == Ascending(UserFavorites(id)) IN
    [id |-> id,
     name |-> users[id].name,
     email |-> users[id].email,
     favorites |-> [i \in DOMAIN favs |-> LocationSimpleSerialize(favs[i])],
     session_token |-> users[id].session_token,
     session_expiration |-> Str(users[id].session_expiration),
     update_token |-> users[id].update_token]

LocationSerialize(id) ==
    LET cs == Ascending(LocationComments(id))
        fs == Ascending(LocationFavUsers(id)) IN
    [id |-> id,
     name |-> locations[id].name,
     address |-> locations[id].address,
     latitude |-> locations[id].latitude,
     longitude |-> locations[id].longitude,
     comments |-> [i \in DOMAIN cs |-> CommentSimpleSerialize(cs[i])],
     fav_users |-> [i \in DOMAIN fs |-> UserSimpleSerialize(fs[i])]]

\* .first() is None when the row is gone, and None.id raises AttributeError
CommentSerialize(id, t) ==
    IF comments[id].user_id \notin DOMAIN users
       \/ comments[id].location_id \notin DOMAIN locations
    THEN None
    ELSE [id |-> id,
          text |-> comments[id].text,
          user_id |-> comments[id].user_id,
          location_id |-> comments[id].location_id,
          time_stamp |-> Str(comments[id].timestamp),
          expiration |-> Str(comments[id].session_expiration),
          expired |-> (comments[id].session_expiration >= t)]

PositionSerialize(id) ==
    [id |-> id,
     user_id |-> positions[id].user_id,
     latitude |-> positions[id].latitude,
     longitude |-> positions[id].longitude,
     timestamp |-> Str(positions[id].timestamp)]

----------------------------------------------------------------------------
(* The initial state: empty tables *)

Empty == [x \in {} |-> 0]

Done(op, err) == [op |-> op, err |-> err]

Init ==
    /\ now = 0
    /\ ticks = 0
    /\ users = Empty
    /\ locations = Empty
    /\ comments = Empty
    /\ positions = Empty
    /\ favorites = {}
    /\ nextId = [users |-> 1, locations |-> 1, comments |-> 1, positions |-> 1]
    /\ hist = Empty
    /\ chist = Empty
    /\ last = Done("init", "none")

----------------------------------------------------------------------------
(* Operations *)

\* time passes
Tick(d) ==
    /\ ticks < MaxTicks
    /\ now' = now + d
    /\ ticks' = ticks + 1
    /\ last' = Done("tick", "none")
    /\ UNCHANGED <<users, locations, comments, positions, favorites, nextId, hist, chist>>

\* unique=True on email, session_token and update_token
UserConflict(id, row) ==
    \E o \in DOMAIN users \ {id} :
        \/ users[o].email = row.email
        \/ users[o].session_token = row.session_token
        \/ users[o].update_token = row.update_token

\* User(name=..., email=..., password=...) and its insertion
CreateUser(name, email, password, r, tok1, tok2) ==
    LET id == nextId.users
        self == UserInit(name, email, password, r, now, tok1, tok2) IN
    /\ id \in UserIds
    /\ IF UserConflict(id, self)
       THEN /\ last' = Done("create_user", "IntegrityError")
            /\ UNCHANGED <<users, nextId, hist>>
       ELSE /\ users' = Extend(users, id, self)
            /\ nextId' = [nextId EXCEPT !.users = id + 1]
            /\ hist' = Extend(hist, id, [password |-> password,
                                         renewed_at |-> now,
                                         old_session |-> {},
                                         old_update |-> {},
                                         collided |-> FALSE])
            /\ last' = Done("create_user", "none")
    /\ UNCHANGED <<now, ticks, locations, comments, positions, favorites, chist>>

\* a login: user.renew_session() and the update of the row
RenewSession(u, tok1, tok2) ==
    LET self == renew_session(users[u], now, tok1, tok2)
        h == hist[u] IN
    /\ u \in DOMAIN users
    /\ IF UserConflict(u, self)
       THEN /\ last' = Done("renew_session", "IntegrityError")
            /\ UNCHANGED <<users, hist>>
       ELSE /\ users' = [users EXCEPT ![u] = self]
            /\ hist' = [hist EXCEPT ![u] =
                  [h EXCEPT !.renewed_at = now,
                            !.old_session = @ \cup {users[u].session_token},
                            !.old_update = @ \cup {users[u].update_token},
                            !.collided = @ \/ tok1 \in h.old_session \cup {users[u].session_token}
                                           \/ tok2 \in h.old_update \cup {users[u].update_token}]]
            /\ last' = Done("renew_session", "none")
    /\ UNCHANGED <<now, ticks, locations, comments, positions, favorites, nextId, chist>>

\* a delete without the cascade on positions
DeleteUser_KeepsPositions(u) ==
    /\ u \in DOMAIN users
    /\ users' = Restrict(users, DOMAIN users \ {u})
    /\ comments' = Restrict(comments, DOMAIN comments \ UserComments(u))
    /\ favorites' = {f \in favorites : f[1] # u}
    /\ hist' = Restrict(hist, DOMAIN hist \ {u})
    /\ chist' = Restrict(chist, DOMAIN chist \ UserComments(u))
    /\ last' = Done("delete_user", "none")
    /\ UNCHANGED <<now, ticks, locations, positions, nextId>>

\* db.session.delete(user): cascade="delete" on comments and positions; the
\* association rows of the user go with it
DeleteUser(u) ==
    /\ u \in DOMAIN users
    /\ users' = Restrict(users, DOMAIN users \ {u})
    /\ comments' = Restrict(comments, DOMAIN comments \ UserComments(u))
    /\ positions' = Restrict(positions, DOMAIN positions \ UserPositions(u))
    /\ favorites' = {f \in favorites : f[1] # u}
    /\ hist' = Restrict(hist, DOMAIN hist \ {u})
    /\ chist' = Restrict(chist, DOMAIN chist \ UserComments(u))
    /\ last' = Done("delete_user", "none")
    /\ UNCHANGED <<now, ticks, locations, nextId>>

\* Location(name=..., address=...) and its insertion
CreateLocation(name, address) ==
    LET id == nextId.locations
        region == Geocode(address) IN
    /\ id \in LocationIds
    /\ IF region = None
       THEN /\ last' = Done("create_location", "AttributeError")
            /\ UNCHANGED <<locations, nextId>>
       ELSE /\ locations' = Extend(locations, id, LocationInit(name, address, region))
            /\ nextId' = [nextId EXCEPT !.locations = id + 1]
            /\ last' = Done("create_location", "none")
    /\ UNCHANGED <<now, ticks, users, comments, positions, favorites, hist, chist>>

\* db.session.delete(location): cascade="delete" on comments
DeleteLocation(l) ==
    /\ l \in DOMAIN locations
    /\ locations' = Restrict(locations, DOMAIN locations \ {l})
    /\ comments' = Restrict(comments, DOMAIN comments \ LocationComments(l))
    /\ favorites' = {f \in favorites : f[2] # l}
    /\ chist' = Restrict(chist, DOMAIN chist \ LocationComments(l))
    /\ last' = Done("delete_location", "none")
    /\ UNCHANGED <<now, ticks, users, positions, nextId, hist>>

\* user.favorites.append(location)
AddFavorite(u, l) ==
    /\ u \in DOMAIN users
    /\ l \in DOMAIN locations
    /\ <<u, l>> \notin favorites
    /\ favorites' = favorites \cup {<<u, l>>}
    /\ last' = Done("add_favorite", "none")
    /\ UNCHANGED <<now, ticks, users, locations, comments, positions, nextId, hist, chist>>

\* Comment(text=..., number=..., user_id=..., location_id=...) and its insertion;
\* the clock may move on between the two reads of now(): skew is 0 or one
\* unit of the model's clock
CreateComment(text, number, u, l, skew) ==
    LET id == nextId.comments IN
    /\ id \in CommentIds
    /\ u \in DOMAIN users
    /\ l \in DOMAIN locations
    /\ comments' = Extend(comments, id, CommentInit(text, number, u, l, now, now + skew))
    /\ now' = now + skew
    /\ nextId' = [nextId EXCEPT !.comments = id + 1]
    /\ chist' = Extend(chist, id, [constructed_at |-> now,
                                   session_expiration |-> now + CommentMinutes])
    /\ last' = Done("create_comment", "none")
    /\ UNCHANGED <<ticks, users, locations, positions, favorites, hist>>

\* Position(user_id=..., latitude=..., longitude=...) and its insertion
CreatePosition(u, latitude, longitude) ==
    LET id == nextId.positions IN
    /\ id \in PositionIds
    /\ u \in DOMAIN users
    /\ positions' = Extend(positions, id, PositionInit(u, latitude, longitude, now))
    /\ nextId' = [nextId EXCEPT !.positions = id + 1]
    /\ last' = Done("create_position", "none")
    /\ UNCHANGED <<now, ticks, users, locations, comments, favorites, hist, chist>>


\* the data model: every table, one password, short steps of the clock
Next ==
    \/ \E d \in DataSteps : Tick(d)
    \/ \E n \in Names, e \in Emails, t \in DataTokens :
          CreateUser(n, e, <<1, 2>>, 101, t[1], t[2])
    \/ \E u \in UserIds : DeleteUser(u)
    \/ \E n \in Names, a \in Addresses : CreateLocation(n, a)
    \/ \E l \in LocationIds : DeleteLocation(l)
    \/ \E u \in UserIds, l \in LocationIds : AddFavorite(u, l)
    \/ \E x \in Texts, u \in UserIds, l \in LocationIds, k \in {0, 1} :
          CreateComment(x, -1, u, l, k)
    \/ \E u \in UserIds, c \in Coordinates : CreatePosition(u, c, -c)

Spec == Init /\ [][Next]_vars

\* accounts and sessions: every password and salt, steps of the clock around a day
NextAuth ==
    \/ \E d \in AuthSteps : Tick(d)
    \/ \E n \in Names, e \in Emails, p \in CreatePasswords, r \in Salts,
          t1 \in Tokens, t2 \in Tokens :
          nextId.users \in AuthUserIds /\ CreateUser(n, e, p, r, t1, t2)
    \/ \E u \in UserIds, t1 \in Tokens, t2 \in Tokens : RenewSession(u, t1, t2)
    \/ \E u \in UserIds : DeleteUser(u)

SpecAuth == Init /\ [][NextAuth]_vars

----------------------------------------------------------------------------
(* Properties *)

\* simple has some but not all of the fields of full, with the same values
StrictSubRecord(simple, full) ==
    /\ DOMAIN simple \subseteq DOMAIN full
    /\ DOMAIN simple # DOMAIN full
    /\ \A k \in DOMAIN simple \cap DOMAIN full : simple[k] = full[k]

\* C1: verify_session_token accepts a token only if it is the stored session
\* token and the clock is strictly before the stored expiration; from the
\* expiration on, the stored token itself is rejected.
C1_SessionTokenOnlyBeforeExpiration ==
    \A u \in DOMAIN users :
        /\ \A t \in Tokens :
              verify_session_token(users[u], now, t) =>
                  t = users[u].session_token /\ now < users[u].session_expiration
        /\ now >= users[u].session_expiration =>
              ~verify_session_token(users[u], now, users[u].session_token)

\* the stored token is presented at the very instant of expiration and rejected
C1_Witness ==
    \E u \in DOMAIN users :
        /\ now = users[u].session_expiration
        /\ ~verify_session_token(users[u], now, users[u].session_token)

\* C2: session_expiration is 24 hours after the clock reading of the latest
\* renew_session() (construction included), whatever happened since.
C2_ExpirationIsADayAfterRenewal ==
    \A u \in DOMAIN users :
        users[u].session_expiration = hist[u].renewed_at + MinutesPerDay

\* a user renewed after time had passed, and time has passed again since
C2_Witness ==
    \E u \in DOMAIN users :
        /\ hist[u].old_session # {}
        /\ hist[u].renewed_at > 0
        /\ now > hist[u].renewed_at
        /\ users[u].session_expiration = hist[u].renewed_at + MinutesPerDay

\* C3: the digest is not the password, the password verifies, and no other
\* string verifies.
C3_OnlyThePasswordVerifies ==
    \A u \in DOMAIN users :
        /\ users[u].password_digest # hist[u].password
        /\ verify_password(users[u], hist[u].password)
        /\ \A s \in Candidates \ {hist[u].password} : ~verify_password(users[u], s)

\* C4: a step that deletes user u removes exactly u's comments and positions,
\* leaves the other rows of both tables and every location as they were, and
\* keeps the association rows of the other users.
C4_DeleteUserCascade ==
    [][\A u \in DOMAIN users :
          u \notin DOMAIN users' =>
              /\ DOMAIN comments' = DOMAIN comments \ UserComments(u)
              /\ \A c \in DOMAIN comments' : comments'[c] = comments[c]
              /\ DOMAIN positions' = DOMAIN positions \ UserPositions(u)
              /\ \A p \in DOMAIN positions' : positions'[p] = positions[p]
              /\ locations' = locations
              /\ {f \in favorites' : f[1] # u} = {f \in favorites : f[1] # u}]_vars

\* user 1 was deleted with a comment and a position of its own; user 2 keeps
\* its comment and its favorite, and the location is still there
C4_Witness ==
    /\ last.op = "delete_user"
    /\ DOMAIN users = {2}
    /\ DOMAIN locations = {1}
    /\ nextId.comments = 3
    /\ nextId.positions = 2
    /\ DOMAIN positions = {}
    /\ \E c \in DOMAIN comments : DOMAIN comments = {c} /\ comments[c].user_id = 2
    /\ favorites = {<<2, 1>>}

\* C5: a comment's session_expiration is exactly 3 minutes after its stored
\* creation timestamp, and stays what construction made it.
C5_ExpirationThreeMinutesAfterTimestamp ==
    \A c \in DOMAIN comments :
        /\ comments[c].session_expiration = comments[c].timestamp + CommentMinutes
        /\ comments[c].session_expiration = chist[c].session_expiration

\* C6: for every row of every table, the fields of simple_serialize() are a
\* strict subset of the fields of serialize(), with the same values.
C6_SimpleIsStrictSubsetOfFull ==
    /\ \A u \in DOMAIN users : StrictSubRecord(UserSimpleSerialize(u), UserSerialize(u))
    /\ \A l \in DOMAIN locations :
          StrictSubRecord(LocationSimpleSerialize(l), LocationSerialize(l))
    /\ \A p \in DOMAIN positions :
          StrictSubRecord(PositionSimpleSerialize(p), PositionSerialize(p))
    /\ \A c \in DOMAIN comments :
          StrictSubRecord(CommentSimpleSerialize(c), CommentSerialize(c, now))

\* C7: constructing a Location never ends in anything but success or the
\* explicit invalid-address error.
C7_ExplicitInvalidAddressError ==
    last.op = "create_location" => last.err \in {"none", "InvalidAddress"}

\* C8: the "expired" field of Comment.serialize() is true exactly when the
\* clock is past the comment's expiration.
C8_ExpiredMeansPastExpiration ==
    \A c \in DOMAIN comments :
        CommentSerialize(c, now).expired <=> now > comments[c].session_expiration

\* C9: verify_update_token accepts exactly the stored update token, whatever
\* the clock says.
C9_UpdateTokenIgnoresClock ==
    \A u \in DOMAIN users :
        \A t \in Tokens :
            verify_update_token(users[u], t) <=> t = users[u].update_token

\* the session has expired and its token is rejected; the update token still passes
C9_Witness ==
    \E u \in DOMAIN users :
        /\ now >= users[u].session_expiration
        /\ ~verify_session_token(users[u], now, users[u].session_token)
        /\ verify_update_token(users[u], users[u].update_token)

\* C10: as long as no generated token repeated one issued to the user before,
\* every superseded session token and update token is rejected, and at most
\* one token of each kind is accepted.
C10_SupersededTokensRejected ==
    \A u \in DOMAIN users :
        ~hist[u].collided =>
            /\ \A t \in hist[u].old_session : ~verify_session_token(users[u], now, t)
            /\ \A t \in hist[u].old_update : ~verify_update_token(users[u], t)
            /\ Cardinality({t \in Tokens : verify_session_token(users[u], now, t)}) <= 1
            /\ Cardinality({t \in Tokens : verify_update_token(users[u], t)}) <= 1

\* a renewal well before the first session would have expired
C10_Witness ==
    \E u \in DOMAIN users :
        /\ ~hist[u].collided
        /\ hist[u].old_session # {}
        /\ hist[u].old_update # {}
        /\ now < MinutesPerDay
        /\ \A t \in hist[u].old_session : ~verify_session_token(users[u], now, t)

====
